---- MODULE Spec2Model ----
(***************************************************************************)
(* SortedSetCache (src/main.go): a cache that writes every item twice, to  *)
(* a sorted set (the ordered index, kept under the key setKey) and to a    *)
(* plain string key (the primary table, with a time-to-live), and reads a  *)
(* score range back by scanning the sorted set and looking every member up *)
(* as a string key.                                                        *)
(*                                                                         *)
(* The store is the Redis keyspace the client talks to: one map from key   *)
(* names to entries, an entry being absent, a string with a time-to-live,  *)
(* or a sorted set.  The sorted set and the string keys live in the same   *)
(* keyspace, as they do in the code (one client, one database).            *)
(*                                                                         *)
(* Scores are fixed-point numbers: the integer n stands for n/Sub          *)
(* millionths, so that a score can have more than the six decimals the     *)
(* "%f" of GetByScoreRange keeps.  NaN is a score of its own.              *)
(***************************************************************************)
EXTENDS Integers, Sequences, FiniteSets, TLC

VARIABLES
    db,      \* the store's keyspace: key name -> entry
    closed,  \* whether Close has been called on the client
    pc,      \* per caller: where it is inside Set (Set makes two round trips)
    last,    \* the call that returned last, with its arguments and its result
    world    \* which inputs the callers draw from (fixed by Init)

vars == <<db, closed, pc, last, world>>

-----------------------------------------------------------------------------
(* Bounds of the model *)

MaxScore == 2     \* scores are 0..MaxScore (in units of 1/Sub millionth)
MaxOffset == 1    \* offsets are 0..MaxOffset
MaxCount == 2     \* counts are 0..MaxCount
Sub == 3          \* resolution: score units per millionth

(* main.go:132: the expiration handed to NewSortedSetCache, 1*time.Hour, in
   ticks of the store's clock (one tick is one hour) *)
TTL == 1

-----------------------------------------------------------------------------
(* Names, values and scores *)

\* main.go:132, the setKey of the cache
SetKey == "my-sorted-cache"

\* Every string of the model in byte order, the order Redis compares members in.
LexOrder ==
    << "", "Value for item 1", "Value for item 2", "Value for item 3",
       "a", "b", "item1", "item2", "item3", "my-sorted-cache" >>

Rank(s) == CHOOSE i \in 1..Len(LexOrder) : LexOrder[i] = s

\* A Go interface{} value: its dynamic type and its content.
Str(s) == <<"string", s>>
NotStr == <<"int", "7">>

\* A float64 score: NaN, or the number n/Sub millionths.
Num(n) == [nan |-> FALSE, n |-> n]
NaN == [nan |-> TRUE, n |-> 0]

\* A whole number of units, as the float64 the code is handed.
Whole(u) == Num(u * 1000000 * Sub)

-----------------------------------------------------------------------------
(* Entries of the keyspace *)

Absent == [typ |-> "none", val |-> "", ttl |-> 0, z |-> {}]
StringEntry(v, t) == [typ |-> "string", val |-> v, ttl |-> t, z |-> {}]
ZsetEntry(z) == [typ |-> "zset", val |-> "", ttl |-> 0, z |-> z]

\* The ordered index: the <<member, score>> pairs of the sorted set at setKey.
Index(d) == IF d[SetKey].typ = "zset" THEN d[SetKey].z ELSE {}

IndexMembers(d) == {p[1] : p \in Index(d)}

\* The primary table: whether key holds a live string, and its value.
Live(d, key) == d[key].typ = "string"

-----------------------------------------------------------------------------
(* The store's commands, as the client library sends them *)

\* Faulty variant: a ZADD that takes any score, NaN included
ZAddAnyScore(d, member, score) ==
    IF d[SetKey].typ = "string"
    THEN [ok |-> FALSE, db |-> d]
    ELSE [ok |-> TRUE,
          db |-> [d EXCEPT ![SetKey] =
                     ZsetEntry({p \in d[SetKey].z : p[1] # member}
                               \cup {<<member, score.n>>})]]

\* ZADD setKey score member (main.go:59-64).  The server refuses a score that
\* is not a number ("value is not a valid float") and a key that holds a string
\* (WRONGTYPE); otherwise the member is inserted, or moved to the new score when
\* it is already there.
ZAdd(d, member, score) ==
    IF score.nan \/ d[SetKey].typ = "string"
    THEN [ok |-> FALSE, db |-> d]
    ELSE [ok |-> TRUE,
          db |-> [d EXCEPT ![SetKey] =
                     ZsetEntry({p \in d[SetKey].z : p[1] # member}
                               \cup {<<member, score.n>>})]]

\* Faulty variant: SET with its key and value exchanged
SetStrSwapped(d, key, value) == [d EXCEPT ![value] = StringEntry(key, TTL)]

\* SET key value EX expiration (main.go:70): whatever the key held is replaced.
SetStr(d, key, value) == [d EXCEPT ![key] = StringEntry(value, TTL)]

\* GET key (main.go:115): the value, redis.Nil for an absent key, an error for
\* a key that holds a sorted set.
GetStr(d, key) ==
    CASE d[key].typ = "string" -> [res |-> "ok", val |-> d[key].val]
      [] d[key].typ = "none" -> [res |-> "nil", val |-> ""]
      [] OTHER -> [res |-> "wrongtype", val |-> ""]

\* fmt.Sprintf("%f", x) (main.go:81-82): x rendered with six decimals, rounded
\* to the nearest, a tie to the even digit.  The text is modelled by its number
\* of millionths.
FormatF(x) ==
    LET q == x.n \div Sub
        r == x.n % Sub
    IN  IF 2 * r < Sub THEN q
        ELSE IF 2 * r > Sub THEN q + 1
        ELSE IF q % 2 = 0 THEN q ELSE q + 1

\* The server reading such a text back as a double.
ParseF(t) == t * Sub

\* The order of a sorted set: by score, members of equal score in byte order.
ZLessEq(p, q) == p[2] < q[2] \/ (p[2] = q[2] /\ Rank(p[1]) <= Rank(q[1]))

RECURSIVE SortZ(_)
SortZ(S) ==
    IF S = {} THEN <<>>
    ELSE LET m == CHOOSE p \in S : \A q \in S : ZLessEq(p, q)
         IN  <<m>> \o SortZ(S \ {m})

\* The members whose score lies in [lo, hi], both ends included.
InRange(z, lo, hi) == {p \in z : lo <= p[2] /\ p[2] <= hi}

\* LIMIT offset count, as the ZRangeBy of main.go:80-85 reaches the server.  The
\* client library adds "LIMIT offset count" to the command only when offset or
\* count is not 0: with both 0 the server is asked for the whole range.  Given
\* a LIMIT, the server skips offset members and returns at most count of them,
\* none for a count of 0 and all of them for a negative count.
Window(seq, offset, count) ==
    IF offset = 0 /\ count = 0 THEN seq
    ELSE IF offset < 0 THEN <<>>
    ELSE IF count < 0 THEN SubSeq(seq, offset + 1, Len(seq))
    ELSE SubSeq(seq, offset + 1,
                IF offset + count < Len(seq) THEN offset + count ELSE Len(seq))

\* ZRANGEBYSCORE setKey min max WITHSCORES [LIMIT offset count] (main.go:80-87)
ZRangeByScoreWithScores(d, minText, maxText, offset, count) ==
    IF d[SetKey].typ = "string"
    THEN [ok |-> FALSE, res |-> <<>>]
    ELSE [ok |-> TRUE,
          res |-> Window(SortZ(InRange(Index(d), ParseF(minText), ParseF(maxText))),
                         offset, count)]

-----------------------------------------------------------------------------
(* The results of the calls *)

NoCall ==
    [op |-> "none", key |-> "", val |-> Str(""), score |-> Num(0),
     min |-> Num(0), max |-> Num(0), offset |-> 0, count |-> 0,
     err |-> "nil", out |-> "", items |-> <<>>]

Idle == [at |-> "idle", key |-> "", val |-> "", score |-> Num(0)]

\* Get (main.go:114-123) as a function of the store: the value, or one of the
\* two errors.  down: the round trip itself failed.
GetResult(d, key, down) ==
    LET r == GetStr(d, key)
    IN  IF down \/ r.res = "wrongtype" THEN [err |-> "ErrGet", val |-> ""]
        ELSE IF r.res = "nil" THEN [err |-> "ErrNotExist", val |-> ""]
        ELSE [err |-> "nil", val |-> r.val]

\* Faulty variant: a loop that ends at the first lookup that fails
RECURSIVE CollectUntilFailure(_, _, _)
CollectUntilFailure(d, res, lostKeys) ==
    IF res = <<>> THEN <<>>
    ELSE LET z == Head(res)
             g == GetResult(d, z[1], z[1] \in lostKeys)
         IN  IF g.err # "nil" THEN <<>>
             ELSE <<[Key |-> z[1], Score |-> z[2], Value |-> g.val]>>
                  \o CollectUntilFailure(d, Tail(res), lostKeys)

\* The loop of GetByScoreRange (main.go:92-110): every member of the scan is
\* looked up as a key, and is skipped when the lookup fails.  lostKeys: the
\* members whose lookup round trip fails.
RECURSIVE Collect(_, _, _)
Collect(d, res, lostKeys) ==
    IF res = <<>> THEN <<>>
    ELSE LET z == Head(res)
             g == GetResult(d, z[1], z[1] \in lostKeys)
             rest == Collect(d, Tail(res), lostKeys)
         IN  IF g.err # "nil" THEN rest
             ELSE <<[Key |-> z[1], Score |-> z[2], Value |-> g.val]>> \o rest

\* Faulty variant: a range query that fails when a lookup's round trip fails
RangeResultAborting(d, min, max, offset, count, down, lostKeys) ==
    LET r == ZRangeByScoreWithScores(d, FormatF(min), FormatF(max), offset, count)
    IN  IF down \/ ~r.ok \/ \E i \in 1..Len(r.res) : r.res[i][1] \in lostKeys
        THEN [err |-> "ErrRange", items |-> <<>>]
        ELSE [err |-> "nil", items |-> Collect(d, r.res, lostKeys)]

\* GetByScoreRange (main.go:79-112) as a function of the store.
RangeResult(d, min, max, offset, count, down, lostKeys) ==
    LET r == ZRangeByScoreWithScores(d, FormatF(min), FormatF(max), offset, count)
    IN  IF down \/ ~r.ok THEN [err |-> "ErrRange", items |-> <<>>]
        ELSE [err |-> "nil", items |-> Collect(d, r.res, lostKeys)]

-----------------------------------------------------------------------------
(* The inputs of each world *)

Callers == IF world = "conc" THEN {1, 2} ELSE {1}

SmallKeys == {"a", "b", SetKey}
SmallValues == {Str("a"), Str("b"), NotStr}
SmallScores == {Num(n) : n \in 0..MaxScore} \cup {NaN}

\* main.go:139, 144, 149
DemoSets ==
    { <<"item1", Str("Value for item 1"), Whole(100)>>,
      <<"item2", Str("Value for item 2"), Whole(200)>>,
      <<"item3", Str("Value for item 3"), Whole(150)>> }

\* main.go:155
DemoRange == <<Whole(120), Whole(250), 0, 10>>

\* The key names of the store: the keys written and the members looked up.
Names ==
    IF world = "demo"
    THEN {t[1] : t \in DemoSets} \cup {t[2][2] : t \in DemoSets} \cup {SetKey}
    ELSE IF world = "edge" THEN {"", "a", SetKey}
    ELSE {"a", "b", SetKey}

SetInputs ==
    IF world = "demo" THEN DemoSets
    ELSE IF world = "conc"
         THEN {"a"} \X {Str("a"), Str("b")} \X {Num(0), Num(MaxScore)}
    ELSE IF world = "edge"
         THEN {"", "a"} \X {Str(""), Str("a"), NotStr} \X {Num(0), Num(MaxScore)}
         ELSE SmallKeys \X SmallValues \X SmallScores

GetInputs ==
    IF world = "demo" THEN Names \ {SetKey}
    ELSE IF world = "edge" THEN {"", "a"}
    ELSE SmallKeys

\* Every range query of the bounds, with min <= max.
RangeArgs ==
    { a \in {Num(n) : n \in 0..MaxScore} \X {Num(n) : n \in 0..MaxScore}
             \X (0..MaxOffset) \X (0..MaxCount) : a[1].n <= a[2].n }

\* The range queries the callers make: the whole score range from the first or
\* the last offset with a count of 0, of 1 or the largest, and every one-score
\* range with the largest count.
RangeInputs ==
    IF world = "demo" THEN {DemoRange}
    ELSE { a \in RangeArgs :
             \/ /\ a[1].n = 0 /\ a[2].n = MaxScore
                /\ a[3] \in {0, MaxOffset} /\ a[4] \in {0, 1, MaxCount}
             \/ a[1] = a[2] /\ a[3] = 0 /\ a[4] = MaxCount }


-----------------------------------------------------------------------------
(* The operations *)

\* Faulty variant: a Set that writes the value before it adds the member
SetIndexValueFirst(c, key, value, score, down) ==
    /\ pc[c].at = "idle"
    /\ LET call == [NoCall EXCEPT !.op = "Set", !.key = key, !.val = value,
                                  !.score = score]
       IN  IF value[1] # "string"
           THEN /\ last' = [call EXCEPT !.err = "ErrNotString"]
                /\ UNCHANGED <<db, pc>>
           ELSE LET d1 == SetStr(db, key, value[2])
                    r == ZAdd(d1, value[2], score)
                IN  IF closed \/ down \/ ~r.ok
                    THEN /\ last' = [call EXCEPT !.err = "ErrAdd"]
                         /\ db' = d1
                         /\ UNCHANGED pc
                    ELSE /\ db' = r.db
                         /\ pc' = [pc EXCEPT ![c] =
                                      [at |-> "kv", key |-> key,
                                       val |-> value[2], score |-> score]]
                         /\ last' = [call EXCEPT !.err = "pending"]
    /\ UNCHANGED <<closed, world>>

\* Faulty variant: a Set that adds the member before it looks at the type of
\* the value
SetIndexAssertLast(c, key, value, score, down) ==
    /\ pc[c].at = "idle"
    /\ LET call == [NoCall EXCEPT !.op = "Set", !.key = key, !.val = value,
                                  !.score = score]
           r == ZAdd(db, value[2], score)
       IN  IF closed \/ down \/ ~r.ok
           THEN /\ last' = [call EXCEPT !.err = "ErrAdd"]
                /\ UNCHANGED <<db, pc>>
           ELSE IF value[1] # "string"
           THEN /\ last' = [call EXCEPT !.err = "ErrNotString"]
                /\ db' = r.db
                /\ UNCHANGED pc
           ELSE /\ db' = r.db
                /\ pc' = [pc EXCEPT ![c] =
                             [at |-> "kv", key |-> key,
                              val |-> value[2], score |-> score]]
                /\ last' = [call EXCEPT !.err = "pending"]
    /\ UNCHANGED <<closed, world>>

\* Set, up to its first round trip (main.go:52-67): the type assertion, then
\* the member is added to the sorted set.  The member is the value.
SetIndex(c, key, value, score, down) ==
    /\ pc[c].at = "idle"
    /\ LET call == [NoCall EXCEPT !.op = "Set", !.key = key, !.val = value,
                                  !.score = score]
       IN  IF value[1] # "string"
           THEN /\ last' = [call EXCEPT !.err = "ErrNotString"]
                /\ UNCHANGED <<db, pc>>
           ELSE LET r == ZAdd(db, value[2], score)
                IN  IF closed \/ down \/ ~r.ok
                    THEN /\ last' = [call EXCEPT !.err = "ErrAdd"]
                         /\ UNCHANGED <<db, pc>>
                    ELSE /\ db' = r.db
                         /\ pc' = [pc EXCEPT ![c] =
                                      [at |-> "kv", key |-> key,
                                       val |-> value[2], score |-> score]]
                         /\ last' = [call EXCEPT !.err = "pending"]
    /\ UNCHANGED <<closed, world>>

\* Faulty variant: a Set that takes its member out of the sorted set again when
\* the value cannot be written
SetValueRollback(c, down) ==
    /\ pc[c].at = "kv"
    /\ LET call == [NoCall EXCEPT !.op = "Set", !.key = pc[c].key,
                                  !.val = Str(pc[c].val), !.score = pc[c].score]
       IN  IF closed \/ down
           THEN /\ last' = [call EXCEPT !.err = "ErrSet"]
                /\ db' = [db EXCEPT ![SetKey] =
                             ZsetEntry({p \in db[SetKey].z : p[1] # pc[c].val})]
           ELSE /\ db' = SetStr(db, pc[c].key, pc[c].val)
                /\ last' = call
    /\ pc' = [pc EXCEPT ![c] = Idle]
    /\ UNCHANGED <<closed, world>>

\* Set, its second round trip (main.go:69-75): the value is written under key.
SetValue(c, down) ==
    /\ pc[c].at = "kv"
    /\ LET call == [NoCall EXCEPT !.op = "Set", !.key = pc[c].key,
                                  !.val = Str(pc[c].val), !.score = pc[c].score]
       IN  IF closed \/ down
           THEN /\ last' = [call EXCEPT !.err = "ErrSet"]
                /\ UNCHANGED db
           ELSE /\ db' = SetStr(db, pc[c].key, pc[c].val)
                /\ last' = call
    /\ pc' = [pc EXCEPT ![c] = Idle]
    /\ UNCHANGED <<closed, world>>

\* Get (main.go:114-123)
Get(c, key, down) ==
    /\ pc[c].at = "idle"
    /\ LET g == GetResult(db, key, closed \/ down)
       IN  last' = [NoCall EXCEPT !.op = "Get", !.key = key, !.err = g.err,
                                  !.out = g.val]
    /\ UNCHANGED <<db, closed, pc, world>>

\* Faulty variant: a range query that goes through on a closed client
GetByScoreRangeAfterClose(c, min, max, offset, count, down, lostKeys) ==
    /\ pc[c].at = "idle"
    /\ LET r == RangeResult(db, min, max, offset, count, down, lostKeys)
       IN  last' = [NoCall EXCEPT !.op = "Range", !.min = min, !.max = max,
                                  !.offset = offset, !.count = count,
                                  !.err = r.err, !.items = r.items]
    /\ UNCHANGED <<db, closed, pc, world>>

\* Faulty variant: a range query that takes the members without a live entry
\* out of the sorted set
GetByScoreRangePruning(c, min, max, offset, count, down, lostKeys) ==
    /\ pc[c].at = "idle"
    /\ LET r == RangeResult(db, min, max, offset, count, closed \/ down,
                            IF closed THEN Names ELSE lostKeys)
       IN  /\ last' = [NoCall EXCEPT !.op = "Range", !.min = min, !.max = max,
                                     !.offset = offset, !.count = count,
                                     !.err = r.err, !.items = r.items]
           /\ db' = IF r.err = "nil" /\ db[SetKey].typ = "zset"
                    THEN [db EXCEPT ![SetKey] =
                             ZsetEntry({p \in db[SetKey].z : Live(db, p[1])})]
                    ELSE db
    /\ UNCHANGED <<closed, pc, world>>

\* GetByScoreRange (main.go:79-112)
GetByScoreRange(c, min, max, offset, count, down, lostKeys) ==
    /\ pc[c].at = "idle"
    /\ LET r == RangeResult(db, min, max, offset, count, closed \/ down,
                            IF closed THEN Names ELSE lostKeys)
       IN  last' = [NoCall EXCEPT !.op = "Range", !.min = min, !.max = max,
                                  !.offset = offset, !.count = count,
                                  !.err = r.err, !.items = r.items]
    /\ UNCHANGED <<db, closed, pc, world>>

\* Close (main.go:126-128): the client refuses every later command, and a
\* second Close.
Close(c) ==
    /\ pc[c].at = "idle"
    /\ closed' = TRUE
    /\ last' = [NoCall EXCEPT !.op = "Close",
                              !.err = IF closed THEN "ErrClosed" ELSE "nil"]
    /\ UNCHANGED <<db, pc, world>>

\* The clock of the store: every string written by Set (main.go:70, with
\* c.expiration) loses one tick of its time-to-live and is deleted at 0.  A
\* sorted set has no time-to-live.
Tick ==
    /\ \E k \in Names : db[k].typ = "string"
    /\ db' = [k \in Names |->
                 IF db[k].typ # "string" THEN db[k]
                 ELSE IF db[k].ttl = 1 THEN Absent
                 ELSE [db[k] EXCEPT !.ttl = db[k].ttl - 1]]
    /\ UNCHANGED <<closed, pc, last, world>>

-----------------------------------------------------------------------------
(* The specifications *)

InitIn(w) ==
    /\ world = w
    /\ db = [k \in Names |-> Absent]
    /\ closed = FALSE
    /\ pc = [c \in {1, 2} |-> Idle]
    /\ last = NoCall

\* NewSortedSetCache (main.go:28-49) on an empty store
Init == InitIn("small")

\* the store and the calls of main (main.go:130-164)
InitDemo == InitIn("demo")

\* two callers
InitConc == InitIn("conc")

\* a caller that passes the empty string as a key and as a value
InitEdge == InitIn("edge")

Next ==
    \/ \E c \in Callers, t \in SetInputs, down \in BOOLEAN :
          SetIndex(c, t[1], t[2], t[3], down)
    \/ \E c \in Callers, down \in BOOLEAN : SetValue(c, down)
    \/ \E c \in Callers, key \in GetInputs, down \in BOOLEAN : Get(c, key, down)
    \/ \E c \in Callers, a \in RangeInputs, lostKeys \in SUBSET IndexMembers(db) :
          GetByScoreRange(c, a[1], a[2], a[3], a[4], FALSE, lostKeys)
    \/ \E c \in Callers, a \in RangeInputs :
          GetByScoreRange(c, a[1], a[2], a[3], a[4], TRUE, {})
    \/ Tick

\* The cache in service, and with its shutdown.
NextLife == Next \/ \E c \in Callers : Close(c)

Spec == Init /\ [][Next]_vars

SpecLife == Init /\ [][NextLife]_vars

SpecDemo == InitDemo /\ [][Next]_vars

SpecConc == InitConc /\ [][Next]_vars

SpecEdge == InitEdge /\ [][Next]_vars

-----------------------------------------------------------------------------
(* Properties *)

\* The items GetByScoreRange returns when no round trip fails.
Page(d, min, max, offset, count) ==
    RangeResult(d, min, max, offset, count, FALSE, {}).items

\* The call that returned last is a Set that succeeded.
LastSetOk == last.op = "Set" /\ last.err = "nil"

\* items holds the item <<key, score, value>>
HasItem(items, key, score, value) ==
    \E i \in 1..Len(items) :
        items[i] = [Key |-> key, Score |-> score, Value |-> value]

\* items is in ascending order of score, equal scores in ascending key order
Ascending(items) ==
    \A i \in 1..Len(items), j \in 1..Len(items) :
        i < j => \/ items[i].Score < items[j].Score
                 \/ /\ items[i].Score = items[j].Score
                    /\ Rank(items[i].Key) < Rank(items[j].Key)

\* A number with at most six decimals, which "%f" renders exactly.
SixDecimals(x) == ~x.nan /\ x.n % Sub = 0

\* C1: whenever Set(key, value, score) returns success, the ordered index holds
\* the member key with that score and the primary table maps key to value.
C1_SetIndexesKey ==
    [][\A c \in Callers :
          (pc[c].at = "kv" /\ SetValue(c, FALSE))
          => /\ <<pc[c].key, pc[c].score.n>> \in Index(db')
             /\ Live(db', pc[c].key)
             /\ db'[pc[c].key].val = pc[c].val]_vars

\* The store after the three Sets of main, nothing expired.
DemoWritten(d) ==
    \A t \in DemoSets : Live(d, t[1]) /\ d[t[1]].val = t[2][2]

DemoExpected ==
    << [Key |-> "item3", Score |-> Whole(150).n, Value |-> "Value for item 3"],
       [Key |-> "item2", Score |-> Whole(200).n, Value |-> "Value for item 2"] >>

\* C2: after Set("item1", "Value for item 1", 100), Set("item2", "Value for
\* item 2", 200) and Set("item3", "Value for item 3", 150), with nothing
\* expired, GetByScoreRange(120, 250, 0, 10) returns item3 then item2, and not
\* item1.
C2_DemoRange ==
    [][\A c \in Callers :
          (DemoWritten(db)
           /\ GetByScoreRange(c, DemoRange[1], DemoRange[2], DemoRange[3],
                              DemoRange[4], FALSE, {}))
          => last'.items = DemoExpected]_vars

\* C3: a successful Set(key, value, score) followed by Get(key), with no call
\* in between and the entry not yet expired, returns value and no error.
C3_RoundTrip ==
    [][\A c \in Callers, key \in GetInputs :
          (LastSetOk /\ last.key = key /\ Live(db, key) /\ Get(c, key, FALSE))
          => last'.err = "nil" /\ last'.out = last.val[2]]_vars

\* A Get has returned the value of an entry that no tick has aged, and the
\* value is not the key.
C3_Witness ==
    /\ last.op = "Get" /\ last.err = "nil"
    /\ last.out # last.key
    /\ db[last.key] = StringEntry(last.out, TTL)

\* C4: an entry written by a successful Set, still live, with its score in
\* [min, max], is returned by GetByScoreRange(min, max, 0, N) for N at least
\* the number of entries, and the result is in ascending order of score, equal
\* scores in ascending order of key.  Stated for the entry of the Set that
\* returned last and for bounds and scores of at most six decimals.
C4_RangeReturnsWritten ==
    [][\A c \in Callers, a \in RangeInputs :
          (/\ LastSetOk /\ Live(db, last.key)
           /\ SixDecimals(last.score) /\ SixDecimals(a[1]) /\ SixDecimals(a[2])
           /\ a[1].n <= last.score.n /\ last.score.n <= a[2].n
           /\ a[3] = 0 /\ a[4] = MaxCount
           /\ GetByScoreRange(c, a[1], a[2], a[3], a[4], FALSE, {}))
          => /\ HasItem(last'.items, last.key, last.score.n, last.val[2])
             /\ Ascending(last'.items)]_vars

\* C5: an entry written by a successful Set, still live, whose score equals min
\* or max is in the result of GetByScoreRange(min, max, 0, N), whatever the
\* score.  Stated for the entry of the Set that returned last, and for an entry
\* whose value is its key, so that the member indexed is the key.
C5_InclusiveBounds ==
    [][\A c \in Callers, a \in RangeInputs :
          (/\ LastSetOk /\ Live(db, last.key) /\ last.val = Str(last.key)
           /\ (last.score = a[1] \/ last.score = a[2])
           /\ a[3] = 0 /\ a[4] = MaxCount
           /\ GetByScoreRange(c, a[1], a[2], a[3], a[4], FALSE, {}))
          => HasItem(last'.items, last.key, last.score.n, last.val[2])]_vars

\* Two sequences of items with no item in common.
Disjoint(xs, ys) ==
    \A i \in 1..Len(xs), j \in 1..Len(ys) : xs[i] # ys[j]

\* On the store d, the page of k items from the start followed by the page of
\* m items from offset k is the page of k + m items from the start, and the two
\* pages are disjoint.
Paginates(d, min, max, k, m) ==
    LET first == Page(d, min, max, 0, k)
        second == Page(d, min, max, k, m)
    IN  /\ first \o second = Page(d, min, max, 0, k + m)
        /\ Disjoint(first, second)

\* C6: for every min <= max, every k >= 0 and m >= 0 and every store state,
\* GetByScoreRange(min, max, 0, k) followed by GetByScoreRange(min, max, k, m)
\* is GetByScoreRange(min, max, 0, k + m), and the two pages share no item.
C6_PaginationFromZero ==
    \A a \in RangeArgs : Paginates(db, a[1], a[2], a[3], a[4])

\* What the code does keep: the same for every k >= 1.
PaginationFromOne ==
    \A a \in RangeArgs : a[3] >= 1 => Paginates(db, a[1], a[2], a[3], a[4])

\* C7: for every offset >= 0 and limit >= 0, limit = 0 included,
\* GetByScoreRange(min, max, offset, limit) returns at most limit items.
C7_AtMostLimit ==
    \A a \in RangeArgs, lostKeys \in SUBSET IndexMembers(db) :
        Len(RangeResult(db, a[1], a[2], a[3], a[4], FALSE, lostKeys).items)
            <= a[4]

\* What the code does keep: the same for every offset and limit not both 0.
AtMostLimitUnlessBothZero ==
    \A a \in RangeArgs, lostKeys \in SUBSET IndexMembers(db) :
        (a[3] # 0 \/ a[4] # 0)
        => Len(RangeResult(db, a[1], a[2], a[3], a[4], FALSE, lostKeys).items)
               <= a[4]

\* The members GetByScoreRange(a) scans on the store d.
Scanned(d, a) ==
    LET r == ZRangeByScoreWithScores(d, FormatF(a[1]), FormatF(a[2]), a[3], a[4])
    IN  {r.res[i] : i \in 1..Len(r.res)}

\* The index holds a member with its score in [a.min, a.max] whose primary
\* entry is gone.
HasGap(d, a) ==
    \E p \in Index(d) : a[1].n <= p[2] /\ p[2] <= a[2].n /\ ~Live(d, p[1])

\* C8: when a member of the index in the range has lost its primary entry,
\* GetByScoreRange returns success, returns no item for a key without a live
\* primary entry, and returns every member of its window whose primary entry is
\* live and whose lookup does not fail.
C8_GapTolerance ==
    [][(/\ last' # last /\ last'.op = "Range"
        /\ HasGap(db, <<last'.min, last'.max, last'.offset, last'.count>>))
       => LET a == <<last'.min, last'.max, last'.offset, last'.count>>
          IN  \A c \in Callers, lostKeys \in SUBSET IndexMembers(db) :
                 GetByScoreRange(c, a[1], a[2], a[3], a[4], FALSE, lostKeys)
                 => /\ last'.err = "nil"
                    /\ \A i \in 1..Len(last'.items) :
                          Live(db, last'.items[i].Key)
                    /\ \A z \in Scanned(db, a) :
                          (Live(db, z[1]) /\ z[1] \notin lostKeys)
                          => HasItem(last'.items, z[1], z[2], db[z[1]].val)]_vars

\* A range query has returned the one live member that sorts after a member
\* whose primary entry is gone.
C8_Witness ==
    /\ last.op = "Range" /\ last.err = "nil"
    /\ Len(last.items) = 1
    /\ Live(db, last.items[1].Key)
    /\ \E p \in Index(db) :
          /\ ~Live(db, p[1])
          /\ last.min.n <= p[2] /\ p[2] <= last.max.n
          /\ p[2] < last.items[1].Score

\* The step is a Set of a string value with the score NaN.
SetNaN(c) ==
    /\ last' # last /\ last'.op = "Set"
    /\ last'.val[1] = "string" /\ last'.score.nan
    /\ \E down \in BOOLEAN :
          SetIndex(c, last'.key, last'.val, last'.score, down)

Writes(key) ==
    /\ Live(db', key)
    /\ ~Live(db, key) \/ db'[key].val # db[key].val

\* C10: a Set whose index write fails returns the index-write error and leaves
\* the store as it was; the primary table is written only by a Set whose index
\* write has succeeded.
C10_IndexWriteFirst ==
    [][/\ \A c \in Callers, down \in BOOLEAN :
             (/\ last' # last /\ last'.op = "Set" /\ last'.val[1] = "string"
              /\ down \/ ~ZAdd(db, last'.val[2], last'.score).ok
              /\ SetIndex(c, last'.key, last'.val, last'.score, down))
             => last'.err = "ErrAdd" /\ db' = db /\ pc'[c].at = "idle"
       /\ (last' # last /\ last'.op = "Set" /\ last'.err = "ErrAdd")
             => db' = db
       /\ \A key \in Names :
             Writes(key) => \E c \in Callers : pc[c].at = "kv" /\ pc[c].key = key
       /\ \A c \in Callers :
             (pc[c].at = "idle" /\ pc'[c].at = "kv")
             => <<pc'[c].val, pc'[c].score.n>> \in Index(db')]_vars

\* A Set of a key that holds a value has failed at its index write, and the key
\* holds the value it held.
C10_Witness ==
    /\ last.op = "Set" /\ last.err = "ErrAdd" /\ ~last.score.nan
    /\ Live(db, last.key)
    /\ db[last.key].val # last.val[2]

\* C11: a Set whose index write has succeeded and whose value write fails
\* returns the value-write error, which is not the index-write error, and leaves
\* the store as the index write left it: the member is in the index with the new
\* score.  The same Set made again finds the index as it is (its index write
\* changes nothing), and its value write leaves the key with the value and a
\* full time-to-live, as the value write of a first Set does.
C11_ValueWriteFailure ==
    [][\A c \in Callers :
          /\ (pc[c].at = "kv" /\ SetValue(c, TRUE))
             => /\ last'.err = "ErrSet" /\ last'.err # "ErrAdd"
                /\ db' = db /\ pc'[c].at = "idle"
                /\ <<pc[c].val, pc[c].score.n>> \in Index(db')
                /\ LET r == ZAdd(db', pc[c].val, pc[c].score)
                   IN  r.ok /\ r.db = db'
          /\ (/\ last.op = "Set" /\ last.err = "ErrSet"
              /\ SetIndex(c, last.key, last.val, last.score, FALSE))
             => /\ last'.err = "pending" /\ db' = db
                /\ pc'[c] = [at |-> "kv", key |-> last.key, val |-> last.val[2],
                             score |-> last.score]
          /\ (pc[c].at = "kv" /\ SetValue(c, FALSE))
             => /\ last'.err = "nil"
                /\ db' = SetStr(db, pc[c].key, pc[c].val)
                /\ pc[c].key # SetKey
                   => <<pc[c].val, pc[c].score.n>> \in Index(db')]_vars

\* A Set has failed at its value write: its member is in the index with the
\* score of the call, which is not 0, and its key holds no value.
C11_Witness ==
    /\ last.op = "Set" /\ last.err = "ErrSet"
    /\ <<last.val[2], last.score.n>> \in Index(db)
    /\ ~Live(db, last.key)
    /\ last.score.n # 0

\* The entries the index holds for the member m.
EntriesOf(d, m) == {p \in Index(d) : p[1] = m}

\* C12: a successful Set of a key that the index already holds moves that key's
\* index entry to the new score: afterwards the index holds one entry for the
\* key, with the score of the Set.  (A key that is not the index's own key.)
C12_UpsertMovesKey ==
    [][\A c \in Callers :
          (/\ pc[c].at = "kv" /\ pc[c].key # SetKey
           /\ pc[c].key \in IndexMembers(db)
           /\ SetValue(c, FALSE))
          => EntriesOf(db', pc[c].key) = {<<pc[c].key, pc[c].score.n>>}]_vars

\* What the code does keep: the index never holds two entries for one member.
OneEntryPerMember ==
    \A p \in Index(db), q \in Index(db) : p[1] = q[1] => p = q

\* The store d with the index holding the entries z and nothing else changed.
\* (A sorted set without members is no key at all.)
WithIndex(d, z) ==
    [d EXCEPT ![SetKey] = IF z = {} THEN Absent ELSE ZsetEntry(z)]

\* Contents the index can have: none, one member, two members.
SomeIndexes == { {}, {<<"a", 0>>}, {<<"a", MaxScore>>, <<"b", 0>>} }

\* Get(key) on the store d answers as the primary table alone decides, and
\* answers the same with any other index.
GetByTableOnly(d, key, down, err, out) ==
    /\ (Live(d, key) /\ ~down) => (err = "nil" /\ out = d[key].val)
    /\ (d[key].typ = "none" /\ ~down) => err = "ErrNotExist"
    /\ down => err = "ErrGet"
    /\ d[SetKey].typ # "string"
       => \A z \in SomeIndexes :
             GetResult(WithIndex(d, z), key, down) = [err |-> err, val |-> out]

\* C13: Get(key) returns the value of a live key, the not-found error for a key
\* the store reports absent and another error, the store error, for any other
\* failure; the outcome is the same whatever the index contains; and Get
\* changes nothing in the store.
C13_GetTableOnly ==
    [][\A c \in Callers, down \in BOOLEAN :
          (last' # last /\ last'.op = "Get" /\ Get(c, last'.key, down))
          => /\ db' = db
             /\ GetByTableOnly(db, last'.key, down, last'.err, last'.out)]_vars

\* What the code does keep: the same for every key but the index's own key.
GetTableOnlyOtherKeys ==
    [][\A c \in Callers, down \in BOOLEAN :
          (/\ last' # last /\ last'.op = "Get" /\ last'.key # SetKey
           /\ Get(c, last'.key, down))
          => /\ db' = db
             /\ GetByTableOnly(db, last'.key, down, last'.err, last'.out)]_vars

\* The step is a call of the cache, or a part of one: not the store's clock.
CallStep == last' # last \/ pc' # pc

\* C14: once Close has been called, every Set, Get and GetByScoreRange returns
\* an error, none returns success, a range query returns no list, and none
\* changes the store; a second Close changes nothing either.
C14_ClosedFails ==
    [][(closed /\ CallStep)
       => /\ db' = db /\ closed' /\ pc' = pc
          /\ last'.op \in {"Set", "Get", "Range", "Close"}
          /\ last'.err \notin {"nil", "pending"}
          /\ last'.out = "" /\ last'.items = <<>>
          /\ \A c \in Callers :
                /\ \A down \in BOOLEAN :
                      (last'.op = "Set"
                       /\ SetIndex(c, last'.key, last'.val, last'.score, down))
                      => last'.err \in {"ErrAdd", "ErrNotString"}
                /\ \A down \in BOOLEAN :
                      (last'.op = "Get" /\ Get(c, last'.key, down))
                      => last'.err = "ErrGet"
                /\ \A lostKeys \in SUBSET IndexMembers(db) :
                      (last'.op = "Range"
                       /\ GetByScoreRange(c, last'.min, last'.max, last'.offset,
                                          last'.count, FALSE, lostKeys))
                      => last'.err = "ErrRange"
                /\ (last'.op = "Close" /\ Close(c)) => last'.err = "ErrClosed"]_vars

\* A range query over a member with a live entry has failed on a closed cache.
C14_Witness ==
    /\ closed
    /\ last.op = "Range" /\ last.err = "ErrRange"
    /\ \E p \in Index(db) :
          /\ Live(db, p[1])
          /\ last.min.n <= p[2] /\ p[2] <= last.max.n

\* Caller c is at the value write of a Set that no other call has overlapped:
\* every other caller is idle and nothing has returned since c's index write.
\* The key holds another value, written by an earlier Set.
LaterSet(c) ==
    /\ pc[c].at = "kv"
    /\ \A o \in Callers \ {c} : pc[o].at = "idle"
    /\ last.op = "Set" /\ last.err = "pending"
    /\ last.key = pc[c].key /\ last.val = Str(pc[c].val)
    /\ last.score = pc[c].score
    /\ Live(db, pc[c].key) /\ db[pc[c].key].val # pc[c].val

\* C15: when two Sets of one key do not overlap, the key's index score and its
\* primary value both come from the later Set.
C15_LaterSetWins ==
    [][\A c \in Callers :
          (LaterSet(c) /\ pc[c].key # SetKey /\ SetValue(c, FALSE))
          => /\ EntriesOf(db', pc[c].key) = {<<pc[c].key, pc[c].score.n>>}
             /\ db'[pc[c].key].val = pc[c].val]_vars

\* What the code does keep: the later Set's member has the later Set's score,
\* and the key has the later Set's value.
LaterSetWinsForItsMember ==
    [][\A c \in Callers :
          (LaterSet(c) /\ pc[c].key # SetKey /\ SetValue(c, FALSE))
          => /\ EntriesOf(db', pc[c].val) = {<<pc[c].val, pc[c].score.n>>}
             /\ db'[pc[c].key].val = pc[c].val]_vars

\* Two overlapping Sets of one key have both returned success: the key holds
\* the value of the Set that returned last, and the member of that value has the
\* score of the other Set.
MixedOutcome ==
    /\ last.op = "Set" /\ last.err = "nil"
    /\ \A c \in Callers : pc[c].at = "idle"
    /\ Live(db, last.key) /\ db[last.key].val = last.val[2]
    /\ \E p \in EntriesOf(db, last.val[2]) : p[2] # last.score.n

\* C16: a Set whose value is not a string returns the error of the type
\* assertion, whatever the key and the score and whether or not the store can
\* be reached, and changes nothing: no command is sent.
C16_NotStringRefused ==
    [][\A c \in Callers, down \in BOOLEAN :
          (/\ last' # last /\ last'.op = "Set" /\ last'.val[1] # "string"
           /\ SetIndex(c, last'.key, last'.val, last'.score, down))
          => /\ last'.err = "ErrNotString"
             /\ db' = db /\ pc' = pc /\ closed' = closed]_vars

\* A Set of a value that is not a string has been refused on a store that
\* holds the key and an index.
C16_Witness ==
    /\ last.op = "Set" /\ last.val = NotStr /\ last.err = "ErrNotString"
    /\ ~last.score.nan
    /\ Live(db, last.key)
    /\ Index(db) # {}

\* C17: GetByScoreRange changes nothing, whatever its arguments and whether it
\* returns a list, a shorter list or an error: the index, the primary table and
\* the time-to-live of every entry are after the call what they were before.
\* (A step that is not the store's clock and ends with a range query as the
\* call that returned last is a range query.)
C17_RangeReadOnly ==
    [][(last'.op = "Range" /\ ~Tick)
       => db' = db /\ pc' = pc /\ closed' = closed]_vars

\* A range query has returned an empty list over an index whose members in the
\* range have no live entry, on a store that holds a value not yet aged; the
\* members are still in the index.
C17_Witness ==
    /\ last.op = "Range" /\ last.err = "nil" /\ last.items = <<>>
    /\ \E p \in Index(db) :
          ~Live(db, p[1]) /\ last.min.n <= p[2] /\ p[2] <= last.max.n
    /\ \E k \in Names : Live(db, k) /\ db[k].ttl = TTL

\* The lookup of member m succeeds on the store d: its round trip does not
\* fail and m is a live key.
LookupOk(d, m, lostKeys) == m \notin lostKeys /\ Live(d, m)

\* The window w of the index, without the members whose lookup fails, as items.
Kept(d, w, lostKeys) ==
    LET ok(z) == LookupOk(d, z[1], lostKeys)
        k == SelectSeq(w, ok)
    IN  [i \in 1..Len(k) |->
            [Key |-> k[i][1], Score |-> k[i][2], Value |-> d[k[i][1]].val]]

\* C18: when the index range query succeeds, GetByScoreRange returns success
\* whichever lookups fail, by an absent key or by a failed round trip, and its
\* result is the members of the index window whose lookup succeeded, in the
\* order of the window, each with the member as Key, the index score as Score
\* and the value looked up as Value.  The call fails only when the index range
\* query fails.  For every query the callers make and every set of failing
\* lookups, on every store the cache reaches.
C18_DropAndContinue ==
    \A a \in RangeInputs :
        LET w == ZRangeByScoreWithScores(db, FormatF(a[1]), FormatF(a[2]),
                                         a[3], a[4])
            failed == [err |-> "ErrRange", items |-> <<>>]
        IN  /\ RangeResult(db, a[1], a[2], a[3], a[4], TRUE, {}) = failed
            /\ \A lostKeys \in SUBSET IndexMembers(db) :
                  RangeResult(db, a[1], a[2], a[3], a[4], FALSE, lostKeys)
                  = IF w.ok
                    THEN [err |-> "nil", items |-> Kept(db, w.res, lostKeys)]
                    ELSE failed

\* A range query has returned one item, the second of two members with live
\* entries in its range: the lookup of the first has failed at its round trip.
C18_Witness ==
    /\ last.op = "Range" /\ last.err = "nil" /\ Len(last.items) = 1
    /\ last.offset = 0 /\ last.count # 1
    /\ \E p \in Index(db) :
          /\ Live(db, p[1])
          /\ last.min.n <= p[2] /\ p[2] <= last.max.n
          /\ ZLessEq(p, <<last.items[1].Key, last.items[1].Score>>)
          /\ p[1] # last.items[1].Key

\* C19: a Set with the empty string as its key returns an error and changes
\* nothing: no member is added to the index or moved in it, and no key is
\* written.
C19_EmptyKeyRefused ==
    [][\A c \in Callers, down \in BOOLEAN :
          (/\ last' # last /\ last'.op = "Set" /\ last'.key = ""
           /\ SetIndex(c, "", last'.val, last'.score, down))
          => /\ last'.err \notin {"nil", "pending"}
             /\ db' = db /\ pc' = pc]_vars

\* What the code does with the empty key: what it does with any other key.
EmptyKeyWritten ==
    /\ last.op = "Set" /\ last.key = "" /\ last.err = "nil"
    /\ Live(db, "") /\ db[""].val = last.val[2]
    /\ <<last.val[2], last.score.n>> \in Index(db)

\* C20: no call of the cache and no expiry takes a member out of the index:
\* across every step the set of index members only grows.
C20_IndexOnlyGrows ==
    [][IndexMembers(db) \subseteq IndexMembers(db')]_vars

\* What the code does keep: the same across every step but the value write of
\* a Set whose key is the index's own key.
IndexGrowsOtherKeys ==
    [][(\A c \in Callers : ~(pc[c].at = "kv" /\ pc[c].key = SetKey))
       => IndexMembers(db) \subseteq IndexMembers(db')]_vars

\* A Set of the index's own key has returned success and the index is gone.
IndexOverwritten ==
    /\ last.op = "Set" /\ last.key = SetKey /\ last.err = "nil"
    /\ Index(db) = {}
    /\ db[SetKey] = StringEntry(last.val[2], TTL)

====
